---- MODULE Spec2Model ----
(***************************************************************************)
(* Model of the MuJoCo simulator component of the portfolio site:          *)
(* the React component MuJoCoSimulator, the MuJoCoDemo object it drives    *)
(* (model loading, render loop, reset, actions), the ZMPController gait    *)
(* controller, the DragStateManager and the coordinate conversions.        *)
(*                                                                         *)
(* Units: times are integer milliseconds, positions are integers,          *)
(* joint angles/targets are integer milli-radians.                         *)
(***************************************************************************)
EXTENDS Integers, Sequences, FiniteSets, TLC

(***************************************************************************)
(* Bounds of the model                                                     *)
(***************************************************************************)
\* the render clock stops at MaxTime
MaxTime == 40
\* at most MaxLoads loadModel calls are started
MaxLoads == 2
\* coordinates of the buffers used to exercise the conversions: -MaxCoord..MaxCoord
MaxCoord == 2
\* number of triples in the buffers used to exercise the conversions
MaxTriples == 1

(***************************************************************************)
(* Program constants                                                       *)
(***************************************************************************)
\* render: if (timeMS - this.mujocoTime > 35.0)
FrameBudgetMS == 35
\* render: body_mass[bodyID] * 250
DragGain == 250
\* PD_GAINS
PD_kp == 100
PD_kd == 10

None == "null"

(***************************************************************************)
(* Vectors and the coordinate conversions                                  *)
(***************************************************************************)
Vec3(x, y, z) == <<x, y, z>>
VSub(a, b) == <<a[1] - b[1], a[2] - b[2], a[3] - b[3]>>
VAdd(a, b) == <<a[1] + b[1], a[2] + b[2], a[3] + b[3]>>
VScale(a, k) == <<a[1] * k, a[2] * k, a[3] * k>>

\* getPosition(buffer, index, target, swizzle): buffer is a 0-based array
getPosition(buffer, index, swizzle) ==
    IF swizzle
    THEN <<buffer[index * 3 + 0], buffer[index * 3 + 2], -buffer[index * 3 + 1]>>
    ELSE <<buffer[index * 3 + 0], buffer[index * 3 + 1], buffer[index * 3 + 2]>>

\* getQuaternion(buffer, index, target, swizzle): result is (x, y, z, w)
getQuaternion(buffer, index, swizzle) ==
    IF swizzle
    THEN <<-buffer[index * 4 + 1], -buffer[index * 4 + 3],
            buffer[index * 4 + 2], -buffer[index * 4 + 0]>>
    ELSE <<buffer[index * 4 + 0], buffer[index * 4 + 1],
           buffer[index * 4 + 2], buffer[index * 4 + 3]>>

toMujocoPos_noNeg(target) == <<target[1], target[3], target[2]>>

\* toMujocoPos(target): target.set(target.x, -target.z, target.y)
toMujocoPos(target) == <<target[1], -target[3], target[2]>>

\* writes the triple v at index i of a 0-based buffer
PutTriple(buffer, index, v) ==
    [k \in DOMAIN buffer |->
        IF k = index * 3 + 0 THEN v[1]
        ELSE IF k = index * 3 + 1 THEN v[2]
        ELSE IF k = index * 3 + 2 THEN v[3]
        ELSE buffer[k]]

(***************************************************************************)
(* Robot models and actions offered by the page                            *)
(***************************************************************************)
\* ROBOT_MODELS keys
ROBOT_MODELS == {"humanoid", "unitree_go2", "unitree_h1"}
\* ROBOT_ACTIONS values (the options of the action dropdown)
ROBOT_ACTIONS == {"idle", "walk", "run", "squat", "dance"}

(***************************************************************************)
(* What the physics binary exposes for each model (input data).            *)
(* Arrays are 0-based functions, as the typed arrays of the binary.        *)
(***************************************************************************)
ZeroArr(n) == [k \in 0..(n - 1) |-> 0]
Len0(a) == Cardinality(DOMAIN a)

HumanoidActuators == <<"abdomen_y", "right_hip_y", "left_hip_y", "right_knee">>
Go2Actuators == <<"FR_hip", "FL_hip", "RL_hip", "FR_thigh">>
H1Actuators == <<"left_hip_pitch", "", "left_knee">>

ModelInfo(m) ==
    IF m = "humanoid" THEN
        [nbody |-> 3, geomBodies |-> {0, 1, 2}, timestepMS |-> 8,
         actuators |-> HumanoidActuators, trnid |-> <<0, 1, 2, 1>>,
         nq |-> 3, nv |-> 2, nkey |-> 0, body_mass |-> <<0, 2, 1>>]
    ELSE IF m = "unitree_go2" THEN
        [nbody |-> 2, geomBodies |-> {0, 1}, timestepMS |-> 4,
         actuators |-> Go2Actuators, trnid |-> <<1, 5, -1, 2>>,
         nq |-> 3, nv |-> 2, nkey |-> 1, body_mass |-> <<0, 3>>]
    ELSE
        [nbody |-> 3, geomBodies |-> {0, 1}, timestepMS |-> 8,
         actuators |-> H1Actuators, trnid |-> <<0, 1, 2>>,
         nq |-> 3, nv |-> 2, nkey |-> 0, body_mass |-> <<0, 1, 2>>]

nu(m) == Len(ModelInfo(m).actuators)
\* model.body_mass[b]
BodyMass(m, b) == ModelInfo(m).body_mass[b + 1]
\* model.actuator_trnid[i * 2]
TrnId(m, i) == ModelInfo(m).trnid[i + 1]

\* the poses a physics step can leave the robot in
Poses == {0, 1}
\* generalised positions and velocities of a pose
PoseQpos(m, p) == [k \in 0..(ModelInfo(m).nq - 1) |-> p * (k + 1)]
PoseQvel(m, p) == [k \in 0..(ModelInfo(m).nv - 1) |-> p]
\* model.key_qpos: the keyframe is pose 1
KeyQpos(m) == PoseQpos(m, 1)

\* forward kinematics of the binary: body frames from qpos.
\* xpos is a flat array of nbody triples, xquat of nbody (w, x, y, z) quadruples
FKpos(m, qpos) ==
    [k \in 0..(3 * ModelInfo(m).nbody - 1) |->
        IF k \div 3 = 0 THEN 0
        ELSE IF k % 3 = 0 THEN qpos[0]
        ELSE IF k % 3 = 1 THEN k \div 3
        ELSE qpos[1] + 1]
FKquat(m, qpos) ==
    [k \in 0..(4 * ModelInfo(m).nbody - 1) |->
        IF k \div 4 = 0 THEN (IF k % 4 = 0 THEN 1 ELSE 0)
        ELSE IF qpos[0] = 0 THEN (IF k % 4 = (k \div 4) - 1 THEN 1 ELSE 0)
        ELSE (IF k % 4 = k \div 4 THEN 1 ELSE 0)]

\* new mujoco.Simulation(model, state): all data zero, frames not yet computed
NewSimulation(m) ==
    [model |-> m, freed |-> FALSE,
     ctrl |-> ZeroArr(nu(m)),
     qpos |-> ZeroArr(ModelInfo(m).nq),
     qvel |-> ZeroArr(ModelInfo(m).nv),
     qfrc_applied |-> ZeroArr(ModelInfo(m).nv),
     xpos |-> ZeroArr(3 * ModelInfo(m).nbody),
     xquat |-> ZeroArr(4 * ModelInfo(m).nbody)]

\* simulation.forward()
SimForward(s) ==
    [s EXCEPT !.xpos = FKpos(s.model, s.qpos), !.xquat = FKquat(s.model, s.qpos)]

\* simulation.step(): the binary integrates to some pose p
SimStep(s, p) ==
    SimForward([s EXCEPT !.qpos = PoseQpos(s.model, p), !.qvel = PoseQvel(s.model, p)])

\* simulation.resetData(): mj_resetData, everything back to the defaults
SimResetData(s) ==
    [s EXCEPT !.qpos = ZeroArr(ModelInfo(s.model).nq),
              !.qvel = ZeroArr(ModelInfo(s.model).nv),
              !.ctrl = ZeroArr(nu(s.model)),
              !.qfrc_applied = ZeroArr(ModelInfo(s.model).nv)]

\* simulation.applyForce(fx, fy, fz, tx, ty, tz, px, py, pz, body):
\* the binary adds the generalised force of the perturbation to qfrc_applied
SimApplyForce(s, force, point, body) ==
    [s EXCEPT !.qfrc_applied =
        [k \in DOMAIN s.qfrc_applied |-> s.qfrc_applied[k] + force[1] + force[2] + force[3]]]

(***************************************************************************)
(* ZMPController (zmp-controller.ts)                                       *)
(***************************************************************************)
MapPut(map, key, val) ==
    [x \in (DOMAIN map) \cup {key} |-> IF x = key THEN val ELSE map[x]]

RECURSIVE buildActuatorMapFrom(_, _, _)
buildActuatorMapFrom(names, i, map) ==
    IF i >= Len(names) THEN map
    ELSE buildActuatorMapFrom(names, i + 1,
            IF names[i + 1] # "" THEN MapPut(map, names[i + 1], i) ELSE map)

\* buildActuatorMap(): name -> index for the nu actuators of the model
buildActuatorMap(m) == buildActuatorMapFrom(ModelInfo(m).actuators, 0, << >>)

\* the null that getActuatorIndex returns
NullIndex == -1

\* getActuatorIndex(actuatorName): the index, or null when the name is unknown
getActuatorIndex(actuatorMap, actuatorName) ==
    IF actuatorName \in DOMAIN actuatorMap THEN actuatorMap[actuatorName] ELSE NullIndex

\* identifyMotorActuators(modelName)
identifyMotorActuators(modelName) ==
    IF modelName = "unitree_go2" THEN {"FL_hip", "FR_hip", "RL_hip", "RR_hip"} ELSE {}

\* getJointConfig(modelName); ankle is << >> when the configuration has none
getJointConfig(modelName) ==
    IF modelName = "humanoid" THEN
        [hipPitch |-> <<"right_hip_y", "left_hip_y">>,
         hipRoll |-> <<"right_hip_x", "left_hip_x">>,
         knee |-> <<"right_knee", "left_knee">>,
         ankle |-> <<"right_ankle_y", "left_ankle_y">>]
    ELSE IF modelName = "unitree_go2" THEN
        [hipPitch |-> <<"FL_hip", "FR_hip", "RL_hip", "RR_hip">>,
         hipRoll |-> <<"FL_thigh", "FR_thigh", "RL_thigh", "RR_thigh">>,
         knee |-> <<"FL_calf", "FR_calf", "RL_calf", "RR_calf">>,
         ankle |-> << >>]
    ELSE IF modelName = "unitree_h1" THEN
        [hipPitch |-> <<"left_hip_pitch", "right_hip_pitch">>,
         hipRoll |-> <<"left_hip_roll", "right_hip_roll">>,
         knee |-> <<"left_knee", "right_knee">>,
         ankle |-> <<"left_ankle", "right_ankle">>]
    ELSE [hipPitch |-> << >>, hipRoll |-> << >>, knee |-> << >>, ankle |-> << >>]

\* new ZMPController(model, simulation, modelName); sim is the reference to the
\* simulation object the controller keeps
NewZMPController(m, sim, modelName) ==
    [model |-> m, sim |-> sim, modelName |-> modelName,
     phase |-> 0, isActive |-> FALSE,
     actuatorMap |-> buildActuatorMap(m),
     jointConfig |-> getJointConfig(modelName),
     motorActuators |-> identifyMotorActuators(modelName)]

\* startAction(action)
startAction(zmp, action) ==
    IF action = "walk" THEN [zmp EXCEPT !.isActive = TRUE, !.phase = 0] ELSE zmp

\* stopAction(): the controller part ...
stopActionZmp(zmp) == [zmp EXCEPT !.isActive = FALSE]
\* ... and the part that zeroes this.simulation.ctrl
stopActionSim(s) == [s EXCEPT !.ctrl = [k \in DOMAIN s.ctrl |-> 0]]

\* Math.sin(2 * pi * x / period) in thousandths, by its piecewise-linear
\* interpolation through the quarter-period points
Sin1000(x, period) ==
    LET r == x % period
        q == period \div 4
    IN
    IF r <= q THEN (1000 * r) \div q
    ELSE IF r <= 3 * q THEN (1000 * (2 * q - r)) \div q
    ELSE (1000 * (r - 4 * q)) \div q

Abs(n) == IF n < 0 THEN -n ELSE n
Max(a, b) == IF a > b THEN a ELSE b

\* generateSimpleGait(phase): the targets in insertion order, as <<name, angle>>
\* pairs; phase in ms, angles in milli-radians
generateSimpleGait(zmp, phase) ==
    LET leftPhase == Sin1000(phase, 2000)
        rightPhase == Sin1000(phase + 1000, 2000)
        sway == Sin1000(phase, 4000)
        hipAmp == 100
        kneeAmp == 150
        ankleAmp == 50
        jc == zmp.jointConfig
    IN
    IF zmp.modelName = "unitree_go2" THEN
        (IF Len(jc.hipPitch) = 4
         THEN << <<jc.hipPitch[1], (leftPhase * hipAmp) \div 1000>>,
                 <<jc.hipPitch[2], (rightPhase * hipAmp) \div 1000>>,
                 <<jc.hipPitch[3], (rightPhase * hipAmp) \div 1000>>,
                 <<jc.hipPitch[4], (leftPhase * hipAmp) \div 1000>> >>
         ELSE << >>)
        \o (IF Len(jc.hipRoll) = 4
            THEN << <<jc.hipRoll[1], 50>>, <<jc.hipRoll[2], -50>>,
                    <<jc.hipRoll[3], 50>>, <<jc.hipRoll[4], -50>> >>
            ELSE << >>)
        \o (IF Len(jc.knee) = 4
            THEN << <<jc.knee[1], (Abs(leftPhase) * kneeAmp) \div 1000 - 300>>,
                    <<jc.knee[2], (Abs(rightPhase) * kneeAmp) \div 1000 - 300>>,
                    <<jc.knee[3], (Abs(rightPhase) * kneeAmp) \div 1000 - 300>>,
                    <<jc.knee[4], (Abs(leftPhase) * kneeAmp) \div 1000 - 300>> >>
            ELSE << >>)
    ELSE
        (IF Len(jc.hipPitch) >= 2
         THEN << <<jc.hipPitch[1], (rightPhase * hipAmp) \div 1000>>,
                 <<jc.hipPitch[2], (leftPhase * hipAmp) \div 1000>> >>
         ELSE << >>)
        \o (IF Len(jc.hipRoll) >= 2
            THEN << <<jc.hipRoll[1], (sway * 30) \div 1000>>,
                    <<jc.hipRoll[2], (-sway * 30) \div 1000>> >>
            ELSE << >>)
        \o (IF Len(jc.knee) >= 2
            THEN << <<jc.knee[1], (Max(0, rightPhase) * kneeAmp) \div 1000>>,
                    <<jc.knee[2], (Max(0, leftPhase) * kneeAmp) \div 1000>> >>
            ELSE << >>)
        \o (IF Len(jc.ankle) >= 2
            THEN << <<jc.ankle[1], (rightPhase * ankleAmp) \div 1000>>,
                    <<jc.ankle[2], (leftPhase * ankleAmp) \div 1000>> >>
            ELSE << >>)

applyTarget_allServos(zmp, acc, target) ==
    LET actuatorIdx == getActuatorIndex(zmp.actuatorMap, target[1]) IN
    IF actuatorIdx # NullIndex /\ actuatorIdx < Len0(acc.sim.ctrl)
    THEN [sim |-> [acc.sim EXCEPT !.ctrl[actuatorIdx] = target[2]],
          writes |-> acc.writes \cup {actuatorIdx}]
    ELSE acc

\* the body of targets.forEach in update: one target applied to the simulation s;
\* the result carries the set of ctrl indices written so far
applyTarget(zmp, acc, target) ==
    LET actuatorName == target[1]
        targetAngle == target[2]
        s == acc.sim
        actuatorIdx == getActuatorIndex(zmp.actuatorMap, actuatorName)
    IN
    IF actuatorIdx # NullIndex /\ actuatorIdx < Len0(s.ctrl) THEN
        IF actuatorName \in zmp.motorActuators THEN
            LET trnId == TrnId(zmp.model, actuatorIdx) IN
            IF trnId >= 0 /\ trnId < Len0(s.qpos) THEN
                LET currentAngle == s.qpos[trnId]
                    velIdx == trnId - 1
                    currentVel == IF velIdx >= 0 /\ velIdx < Len0(s.qvel)
                                  THEN s.qvel[velIdx] ELSE 0
                    error == targetAngle - currentAngle
                    torque == PD_kp * error + PD_kd * (-currentVel)
                IN [sim |-> [s EXCEPT !.ctrl[actuatorIdx] = torque],
                    writes |-> acc.writes \cup {actuatorIdx}]
            ELSE acc
        ELSE [sim |-> [s EXCEPT !.ctrl[actuatorIdx] = targetAngle],
              writes |-> acc.writes \cup {actuatorIdx}]
    ELSE acc

RECURSIVE applyTargets(_, _, _, _)
applyTargets(zmp, acc, targets, i) ==
    IF i > Len(targets) THEN acc
    ELSE applyTargets(zmp, applyTarget(zmp, acc, targets[i]), targets, i + 1)

update_anyAction(zmp, s, deltaTime, action) ==
    IF ~zmp.isActive
    THEN [zmp |-> zmp, sim |-> s, writes |-> {}]
    ELSE LET phase == zmp.phase + deltaTime
             r == applyTargets(zmp, [sim |-> s, writes |-> {}],
                               generateSimpleGait(zmp, phase), 1)
         IN [zmp |-> [zmp EXCEPT !.phase = phase], sim |-> r.sim, writes |-> r.writes]

\* update(deltaTime, action) on the controller zmp whose simulation is s
update(zmp, s, deltaTime, action) ==
    IF ~zmp.isActive \/ action # "walk"
    THEN [zmp |-> zmp, sim |-> s, writes |-> {}]
    ELSE LET phase == zmp.phase + deltaTime
             r == applyTargets(zmp, [sim |-> s, writes |-> {}],
                               generateSimpleGait(zmp, phase), 1)
         IN [zmp |-> [zmp EXCEPT !.phase = phase], sim |-> r.sim, writes |-> r.writes]

(***************************************************************************)
(* DragStateManager (DragStateManager.ts)                                  *)
(* A grabbed object is [root, bodyID, world]: the geometry root it belongs *)
(* to, its bodyID and the translation of its matrixWorld.                  *)
(***************************************************************************)
\* physicsObject = null
NoObject == [null |-> TRUE]
\* the bodyID of an object that has none
Undefined == -1

\* points the pointer ray can hit when a body is grabbed
HitPoints == {<<1, 1, 0>>}
\* points the pointer ray yields while dragging
MovePoints == {<<2, 1, 0>>, <<0, 0, 3>>}

\* the DragStateManager constructor
NewDragStateManager ==
    [physicsObject |-> NoObject, active |-> FALSE, mouseDown |-> FALSE,
     controlsEnabled |-> TRUE, arrowVisible |-> FALSE,
     localHit |-> <<0, 0, 0>>, worldHit |-> <<0, 0, 0>>, currentWorld |-> <<0, 0, 0>>]

\* the for loop of start(): the first intersection with a bodyID > 0 is grabbed
RECURSIVE startLoop(_, _, _)
startLoop(d, intersects, i) ==
    IF i > Len(intersects) THEN d
    ELSE LET obj == intersects[i].object
             hit == intersects[i].point
         IN IF obj.bodyID # Undefined /\ obj.bodyID > 0
            THEN [d EXCEPT !.physicsObject = obj,
                           !.active = TRUE,
                           !.controlsEnabled = FALSE,
                           !.localHit = VSub(hit, obj.world),
                           !.worldHit = hit,
                           !.currentWorld = hit,
                           !.arrowVisible = TRUE]
            ELSE startLoop(d, intersects, i + 1)

\* start(x, y): intersects is what the raycaster returns for the pointer
start(d, intersects) == startLoop([d EXCEPT !.physicsObject = NoObject], intersects, 1)

\* update(): worldHit follows the grabbed object
dragUpdate(d) ==
    IF d.physicsObject # NoObject
    THEN [d EXCEPT !.worldHit = VAdd(d.localHit, d.physicsObject.world)]
    ELSE d

\* move(x, y): hit is the point of the pointer ray at the grab distance
move(d, hit) ==
    IF d.active THEN dragUpdate([d EXCEPT !.currentWorld = hit]) ELSE d

\* end()
end(d) ==
    [d EXCEPT !.physicsObject = NoObject, !.active = FALSE, !.controlsEnabled = TRUE,
              !.arrowVisible = FALSE, !.mouseDown = FALSE]

\* onPointer(evt)
onPointer(d, type, intersects, hit) ==
    IF type = "pointerdown" THEN [start(d, intersects) EXCEPT !.mouseDown = TRUE]
    ELSE IF type = "pointermove" /\ d.mouseDown
         THEN (IF d.active THEN move(d, hit) ELSE d)
    ELSE IF type = "pointerup" \/ type = "pointerout" THEN end(d)
    ELSE d

(***************************************************************************)
(* MuJoCoDemo (MuJoCoSimulator.tsx)                                        *)
(* Simulation objects live in a heap indexed by the number of the          *)
(* loadModel call that created them; demo.simulation and the controller's  *)
(* simulation are references (0 = null) into it.                           *)
(***************************************************************************)
\* actionController = null
NoController == [null |-> TRUE]
\* a heap cell that holds no simulation yet
NoSim == [null |-> TRUE]
\* NaN, as body_mass[bodyID] * 250 is when bodyID is not a body of the model
NaNVec == [nan |-> TRUE, v |-> <<0, 0, 0>>]
NumVec(v) == [nan |-> FALSE, v |-> v]

(***************************************************************************)
(* CameraController.  Lengths are in thousandths, angles in units of       *)
(* 0.0001 rad.                                                             *)
(***************************************************************************)
\* new CameraController(camera, controls)
NewCameraController ==
    [isFollowing |-> FALSE, orbitAngle |-> 0, targetPosition |-> <<0, 0, 0>>]

\* startFollowing()
startFollowing(c) == [c EXCEPT !.isFollowing = TRUE, !.orbitAngle = 0]

\* stopFollowing()
stopFollowing(c) == [c EXCEPT !.isFollowing = FALSE]

\* a.lerp(b, smoothing) with smoothing 0.05
Lerp(a, b) == a + ((b - a) * 5) \div 100
VLerp(a, b) == <<Lerp(a[1], b[1]), Lerp(a[2], b[2]), Lerp(a[3], b[3])>>

\* Math.cos(orbitAngle) * orbitRadius and Math.sin(orbitAngle) * orbitRadius,
\* orbitRadius 3.5
orbitOffsetX(angle) == (Sin1000(angle + 15708, 62832) * 3500) \div 1000
orbitOffsetZ(angle) == (Sin1000(angle, 62832) * 3500) \div 1000

\* the body of update once targetPosition and orbitAngle are advanced
cameraFollow(D, targetPosition, angle) ==
    [D EXCEPT !.cameraController.targetPosition = targetPosition,
              !.cameraController.orbitAngle = angle,
              !.camera = VLerp(@, <<targetPosition[1] + orbitOffsetX(angle),
                                    targetPosition[2] + 1500,
                                    targetPosition[3] + orbitOffsetZ(angle)>>),
              !.controlsTarget = VLerp(@, targetPosition)]

\* update(robotPosition, deltaTime) with deltaTime 0.016: orbitAngle += 0.3 * 0.016
cameraUpdate(D, robotPosition) ==
    IF D.cameraController.isFollowing
    THEN cameraFollow(D, VLerp(D.cameraController.targetPosition, robotPosition),
                      D.cameraController.orbitAngle + 48)
    ELSE D

\* resetToDefault()
resetToDefault(D) ==
    [D EXCEPT !.cameraController.isFollowing = FALSE,
              !.camera = <<2000, 1700, 2000>>,
              !.controlsTarget = <<0, 800, 0>>]

\* the MuJoCoDemo constructor; camera and controlsTarget are camera.position
\* and controls.target as createScene sets them
NewMuJoCoDemo ==
    [model |-> None, state |-> None, simulation |-> 0,
     bodies |-> << >>, bodiesRoot |-> 0,
     mujocoTime |-> 0, paused |-> FALSE,
     currentModel |-> "humanoid", currentAction |-> "idle",
     actionController |-> NoController,
     cameraController |-> NewCameraController,
     camera |-> <<2000, 1700, 1700>>,
     controlsTarget |-> <<0, 700, 0>>]

\* The scene holds the "MuJoCo Root" groups in insertion order, each as
\* [id, model, pos]: the load that built it, its model and the positions of its
\* body groups.  The groups of demo.bodies are those of root demo.bodiesRoot;
\* stash records their positions in the scene when demo.bodies lets go of them.
stash(S, D) ==
    [i \in DOMAIN S |->
        IF S[i].id = D.bodiesRoot
        THEN [S[i] EXCEPT !.pos = [b \in DOMAIN D.bodies |-> D.bodies[b].position]]
        ELSE S[i]]

loadModelStart_keepsReference(D, H, S) ==
    [demo |-> [D EXCEPT !.bodies = << >>, !.bodiesRoot = 0],
     heap |-> IF D.simulation # 0 THEN [H EXCEPT ![D.simulation].freed = TRUE] ELSE H,
     scene |-> IF Len(S) > 0 THEN Tail(stash(S, D)) ELSE S]

\* loadModel up to its first await: free the old simulation, drop the old geometry
loadModelStart(D, H, S) ==
    [demo |-> [D EXCEPT !.simulation = 0,
                        !.model = IF D.simulation # 0 THEN None ELSE D.model,
                        !.state = IF D.simulation # 0 THEN None ELSE D.state,
                        !.bodies = << >>,
                        !.bodiesRoot = 0],
     heap |-> IF D.simulation # 0 THEN [H EXCEPT ![D.simulation].freed = TRUE] ELSE H,
     scene |-> IF Len(S) > 0 THEN Tail(stash(S, D)) ELSE S]

\* the points of loadModel's tail where the physics binary can throw
BinaryFailures == {"load_from_xml", "State", "Simulation", "forward"}

\* buildRobotGeometry: the body groups of the model, or none when it caught an error
buildRobotGeometry(m, geomOk) ==
    IF geomOk
    THEN [b \in ModelInfo(m).geomBodies |->
            [position |-> <<0, 0, 0>>, quaternion |-> <<0, 0, 0, 1>>]]
    ELSE << >>

\* loadModel after loadRobotModel resolved: binFail is where the binary throws ("none"
\* if nowhere), geomOk whether buildRobotGeometry built the groups
loadModelTail(D, H, S, m, modelName, id, binFail, geomOk) ==
    IF binFail = "load_from_xml" THEN [demo |-> D, heap |-> H, scene |-> S, threw |-> TRUE]
    ELSE IF binFail = "State"
    THEN [demo |-> [D EXCEPT !.model = m], heap |-> H, scene |-> S, threw |-> TRUE]
    ELSE IF binFail = "Simulation"
    THEN [demo |-> [D EXCEPT !.model = m, !.state = m], heap |-> H, scene |-> S,
          threw |-> TRUE]
    ELSE LET sim0 == NewSimulation(m)
             sim1 == IF ModelInfo(m).nkey > 0
                     THEN [sim0 EXCEPT !.qpos = [i \in DOMAIN sim0.qpos |-> KeyQpos(m)[i]]]
                     ELSE sim0
             D1 == [D EXCEPT !.model = m, !.state = m, !.simulation = id,
                             !.bodies = buildRobotGeometry(m, geomOk),
                             !.bodiesRoot = id]
             S1 == Append(stash(S, D),
                          [id |-> id, model |-> m,
                           pos |-> [b \in DOMAIN buildRobotGeometry(m, geomOk) |->
                                       <<0, 0, 0>>]])
         IN IF binFail = "forward"
            THEN [demo |-> D1, heap |-> [H EXCEPT ![id] = sim1], scene |-> S1,
                  threw |-> TRUE]
            ELSE [demo |-> [D1 EXCEPT !.currentModel = modelName,
                                      !.actionController =
                                          NewZMPController(m, id, modelName)],
                  heap |-> [H EXCEPT ![id] = SimForward(sim1)],
                  scene |-> S1,
                  threw |-> FALSE]

\* resetToStandingPose()
resetToStandingPose(D, H) ==
    IF D.simulation = 0 \/ D.model = None THEN H
    ELSE IF ModelInfo(D.model).nkey > 0
    THEN LET s == H[D.simulation] IN
         [H EXCEPT ![D.simulation] =
            SimForward([s EXCEPT !.qpos = [i \in DOMAIN s.qpos |->
                                              IF i < ModelInfo(D.model).nq
                                              THEN KeyQpos(D.model)[i] ELSE s.qpos[i]],
                                 !.qvel = [i \in DOMAIN s.qvel |-> 0]])]
    ELSE H

\* setAction(action)
setAction(D, H, action) ==
    LET D1 == [D EXCEPT !.currentAction = action]
        zmp == D.actionController
    IN
    IF zmp = NoController THEN [demo |-> D1, heap |-> H]
    ELSE IF action = "idle"
    THEN [demo |-> resetToDefault(
                      [D1 EXCEPT !.actionController = stopActionZmp(zmp),
                                 !.cameraController = stopFollowing(@)]),
          heap |-> [H EXCEPT ![zmp.sim] = stopActionSim(H[zmp.sim])]]
    ELSE IF action = "walk"
    THEN [demo |-> [D1 EXCEPT !.actionController = startAction(zmp, "walk"),
                              !.cameraController = startFollowing(@)],
          heap |-> resetToStandingPose(D1, H)]
    ELSE [demo |-> D1, heap |-> H]

resetSimulation_noReset(D, H) == H

\* resetSimulation()
resetSimulation(D, H) ==
    IF D.simulation # 0
    THEN [H EXCEPT ![D.simulation] = SimForward(SimResetData(H[D.simulation]))]
    ELSE H

\* model.body_mass[bodyID] * 250, NaN when bodyID is not a body of the model
massGain(m, bodyID) ==
    IF bodyID < ModelInfo(m).nbody
    THEN [nan |-> FALSE, v |-> BodyMass(m, bodyID) * DragGain]
    ELSE [nan |-> TRUE, v |-> 0]

\* the two loops "for b < nbody: if (bodies[b]) getPosition / getQuaternion"
syncBodies(D, H) ==
    LET s == H[D.simulation] IN
    [D EXCEPT !.bodies =
        [b \in DOMAIN D.bodies |->
            IF b < ModelInfo(D.model).nbody
            THEN [position |-> getPosition(s.xpos, b, TRUE),
                  quaternion |-> getQuaternion(s.xquat, b, TRUE)]
            ELSE D.bodies[b]]]

\* the drag force of one sub-step: (currentWorld - worldHit) * body_mass * 250
dragForce(G, gain) ==
    IF gain.nan THEN NaNVec
    ELSE NumVec(toMujocoPos(VScale(VSub(G.currentWorld, G.worldHit), gain.v)))

\* applyForce with a NaN force or a body the model does not have poisons the data
applyForce(s, force, point, body) ==
    IF force.nan \/ body >= ModelInfo(s.model).nbody
    THEN [s EXCEPT !.qfrc_applied = [k \in DOMAIN s.qfrc_applied |-> 0]]
    ELSE SimApplyForce(s, force.v, point, body)

\* The state of a frame in progress is st = [demo, heap, drag, subs, active,
\* writes, calls]: the objects, the log of the sub-steps made so far and, of the
\* sub-step in progress, whether the controller was active, the ctrl indices it
\* wrote and the applyForce calls made.  The log entry of a sub-step also holds
\* qfrc, the qfrc_applied that simulation.step() found.
FrameState(D, H, G) ==
    [demo |-> D, heap |-> H, drag |-> G, subs |-> << >>,
     active |-> FALSE, writes |-> {}, calls |-> << >>]

\* the effect of actionController.update on the frame
withUpdate(st, zmp, u) ==
    [st EXCEPT !.heap[zmp.sim] = u.sim,
               !.demo.actionController = u.zmp,
               !.active = zmp.isActive,
               !.writes = u.writes]

\* if (this.actionController) this.actionController.update(timestep, this.currentAction)
stepController(st) ==
    IF st.demo.actionController = NoController
    THEN [st EXCEPT !.active = FALSE, !.writes = {}]
    ELSE withUpdate(st, st.demo.actionController,
                    update(st.demo.actionController,
                           st.heap[st.demo.actionController.sim],
                           ModelInfo(st.demo.model).timestepMS,
                           st.demo.currentAction))

stepClear_skips(st) == st

\* clear old perturbations: qfrc_applied[i] = 0.0
stepClear(st) ==
    [st EXCEPT !.heap[st.demo.simulation].qfrc_applied = [k \in DOMAIN @ |-> 0]]

dragEnabled_ignoresAction(zmp, dragged) ==
    /\ dragged # NoObject
    /\ dragged.bodyID # Undefined
    /\ dragged.bodyID # 0

\* the two conditions of "Handle dragging": no action active, and
\* dragged && bodyID (body_mass is always there)
dragEnabled(zmp, dragged) ==
    /\ (zmp = NoController \/ ~zmp.isActive)
    /\ dragged # NoObject
    /\ dragged.bodyID # Undefined
    /\ dragged.bodyID # 0

\* the body loop of the drag branch and dragStateManager.update()
dragSync(st) ==
    [st EXCEPT !.demo = syncBodies(st.demo, st.heap), !.drag = dragUpdate(st.drag)]

\* the arguments of the applyForce call
dragCall(st) ==
    [force |-> dragForce(st.drag, massGain(st.demo.model, st.drag.physicsObject.bodyID)),
     point |-> toMujocoPos(st.drag.worldHit),
     body |-> st.drag.physicsObject.bodyID]

\* this.simulation.applyForce(force.x, force.y, force.z, 0, 0, 0, point.x, point.y, point.z, bodyID)
withCall(st, call) ==
    [st EXCEPT !.heap[st.demo.simulation] = applyForce(@, call.force, call.point, call.body),
               !.calls = <<call>>]

dragApply(st) == withCall(st, dragCall(st))

\* handle dragging (disabled during actions)
stepDrag(st) ==
    IF dragEnabled(st.demo.actionController, st.drag.physicsObject)
    THEN dragApply(dragSync(st))
    ELSE [st EXCEPT !.calls = << >>]

stepSim_doubleAdvance(st, p) ==
    [st EXCEPT !.heap[st.demo.simulation] = SimStep(@, p),
               !.demo.mujocoTime = @ + 2 * ModelInfo(st.demo.model).timestepMS,
               !.subs = Append(@, [active |-> st.active,
                                   dragged |-> st.drag.physicsObject,
                                   currentWorld |-> st.drag.currentWorld,
                                   worldHit |-> st.drag.worldHit,
                                   calls |-> st.calls,
                                   writes |-> st.writes,
                                   qfrc |-> st.heap[st.demo.simulation].qfrc_applied])]

\* this.simulation.step(); this.mujocoTime += timestep * 1000.0; p is the pose the
\* binary steps to
stepSim(st, p) ==
    [st EXCEPT !.heap[st.demo.simulation] = SimStep(@, p),
               !.demo.mujocoTime = @ + ModelInfo(st.demo.model).timestepMS,
               !.subs = Append(@, [active |-> st.active,
                                   dragged |-> st.drag.physicsObject,
                                   currentWorld |-> st.drag.currentWorld,
                                   worldHit |-> st.drag.worldHit,
                                   calls |-> st.calls,
                                   writes |-> st.writes,
                                   qfrc |-> st.heap[st.demo.simulation].qfrc_applied])]

\* one pass of the while loop of render
subStep(st, p) == stepSim(stepDrag(stepClear(stepController(st))), p)

\* while (this.mujocoTime < timeMS) { ... }; outcomes[k] is the pose of the k-th step
\* (the poses repeat after the last enumerated one)
RECURSIVE renderLoop(_, _, _, _)
renderLoop(st, timeMS, outcomes, k) ==
    IF st.demo.mujocoTime < timeMS
    THEN renderLoop(subStep(st, outcomes[((k - 1) % Len(outcomes)) + 1]),
                    timeMS, outcomes, k + 1)
    ELSE st

physicsRuns_ignoresPause(D) == D.simulation # 0 /\ D.model # None

\* !this.params.paused && this.simulation && this.model
physicsRuns(D) == ~D.paused /\ D.simulation # 0 /\ D.model # None

snapTime_never(D, timeMS) == D

\* if (timeMS - this.mujocoTime > 35.0) this.mujocoTime = timeMS
snapTime(D, timeMS) ==
    IF timeMS - D.mujocoTime > FrameBudgetMS THEN [D EXCEPT !.mujocoTime = timeMS] ELSE D

\* the physics block of render
renderPhysics(D, H, G, timeMS, outcomes) ==
    IF physicsRuns(D)
    THEN renderLoop(FrameState(snapTime(D, timeMS), H, G), timeMS, outcomes, 1)
    ELSE FrameState(D, H, G)

updateBodyPositions_whenRunning(D, H) ==
    IF D.simulation # 0 /\ D.model # None /\ ~D.paused THEN syncBodies(D, H) ELSE D

\* update body positions: if (this.simulation && this.model && this.bodies) ...
updateBodyPositions(D, H) ==
    IF D.simulation # 0 /\ D.model # None THEN syncBodies(D, H) ELSE D

renderSync(st) == [st EXCEPT !.demo = updateBodyPositions(st.demo, st.heap)]

\* update camera to follow robot base: if (this.bodies[1]) cameraController.update(...)
renderCamera(st) ==
    IF st.demo.simulation # 0 /\ st.demo.model # None /\ 1 \in DOMAIN st.demo.bodies
    THEN [st EXCEPT !.demo = cameraUpdate(st.demo, VScale(st.demo.bodies[1].position, 1000))]
    ELSE st

\* renderer.render updates the matrixWorld of the objects of the scene
refreshWorld(G, D) ==
    IF /\ G.physicsObject # NoObject
       /\ D.bodiesRoot # 0
       /\ G.physicsObject.root = D.bodiesRoot
       /\ G.physicsObject.bodyID \in DOMAIN D.bodies
    THEN [G EXCEPT !.physicsObject.world = D.bodies[G.physicsObject.bodyID].position]
    ELSE G

renderDraw(st) == [st EXCEPT !.drag = refreshWorld(st.drag, st.demo)]

\* the frame before any render
NoFrame ==
    [timeMS |-> 0, ran |-> FALSE, gap |-> 0, snapped |-> FALSE, timestep |-> 0,
     loaded |-> FALSE, subs |-> << >>]

\* what a render call did: D is the demo it started from, st the frame it ended in
frameOf(D, st, timeMS) ==
    [timeMS |-> timeMS,
     ran |-> physicsRuns(D),
     gap |-> timeMS - D.mujocoTime,
     snapped |-> physicsRuns(D) /\ timeMS - D.mujocoTime > FrameBudgetMS,
     timestep |-> IF physicsRuns(D) THEN ModelInfo(D.model).timestepMS ELSE 0,
     loaded |-> st.demo.simulation # 0 /\ st.demo.model # None,
     subs |-> st.subs]

renderResult(D, st, timeMS) ==
    [demo |-> st.demo, heap |-> st.heap, drag |-> st.drag, frame |-> frameOf(D, st, timeMS)]

\* render(timeMS)
render(D, H, G, timeMS, outcomes) ==
    renderResult(D, renderDraw(renderCamera(renderSync(
                        renderPhysics(D, H, G, timeMS, outcomes)))),
                 timeMS)

(***************************************************************************)
(* loadRobotModel / loadAssets (mujoco-loader.ts)                          *)
(* A run of the loader is described by what its fetches and VFS writes do: *)
(*   xml     fetch of the model XML: ok, rejected, notOk, empty            *)
(*   include fetch/write of an include file: none (the XML has none), ok,  *)
(*           rejected, notOk, writeFailed                                  *)
(*   asset   fetch/write of a mesh or texture: none, ok, rejected, notOk,  *)
(*           writeFailed                                                   *)
(*   write   FS.writeFile of the model XML: ok, failed                     *)
(***************************************************************************)
LoaderRunsAll ==
    [xml : {"ok", "rejected", "notOk", "empty"},
     include : {"none", "ok", "rejected", "notOk", "writeFailed"},
     asset : {"none", "ok", "rejected", "notOk", "writeFailed"},
     write : {"ok", "failed"}]

FaultCount(io) ==
    (IF io.xml # "ok" THEN 1 ELSE 0)
    + (IF io.include \notin {"none", "ok"} THEN 1 ELSE 0)
    + (IF io.asset \notin {"none", "ok"} THEN 1 ELSE 0)
    + (IF io.write # "ok" THEN 1 ELSE 0)

\* the runs explored: at most one fault per run, and assets and includes present
LoaderRuns ==
    {io \in LoaderRunsAll : FaultCount(io) <= 1 /\ io.include # "none" /\ io.asset # "none"}

\* loadAssets: every failure is caught and logged, the promise always resolves
loadAssets(asset) ==
    [threw |-> FALSE, logged |-> asset \in {"rejected", "notOk", "writeFailed"}]

\* loadRobotModel: threw says whether the promise rejects, logged whether a
\* failure was only logged
loadRobotModel(io) ==
    IF io.xml = "rejected" THEN [threw |-> TRUE, logged |-> FALSE]
    ELSE IF io.xml = "notOk" THEN [threw |-> TRUE, logged |-> FALSE]
    ELSE IF io.xml = "empty" THEN [threw |-> TRUE, logged |-> FALSE]
    ELSE IF io.include = "rejected" THEN [threw |-> TRUE, logged |-> FALSE]
    ELSE IF io.include = "writeFailed" THEN [threw |-> TRUE, logged |-> FALSE]
    ELSE LET incl == IF io.include = "ok" THEN loadAssets(io.asset).logged
                     ELSE io.include = "notOk"
             main == loadAssets(io.asset).logged
         IN IF io.write = "failed" THEN [threw |-> TRUE, logged |-> incl \/ main]
            ELSE [threw |-> FALSE, logged |-> incl \/ main]

\* the frame times requestAnimationFrame can deliver after the last one
FrameDeltas == {18, 40}
\* the physics steps of one frame whose poses are enumerated
MaxSubSteps == 2

(***************************************************************************)
(* State                                                                   *)
(***************************************************************************)
VARIABLES
    isMounted,        \* React state of MuJoCoSimulator
    isInitialized,
    error,            \* None or the message of the Error
    currentModel,
    currentAction,
    physicsPaused,
    isLoadingModel,
    demoRef,          \* demoRef.current is set
    demo,             \* the MuJoCoDemo object
    heap,             \* the Simulation objects created so far
    scene,            \* the "MuJoCo Root" groups of the scene
    dragStateManager,
    initDemoPc,       \* initDemo: idle, wasm, loading, done, failed
    initLoad,         \* the number of the loadModel call of initDemo
    switch,           \* switchModelLocal: [pc, model, id, prev]; prev is the model
                      \* whose simulation its loadModel call freed
    nLoads,           \* loadModel calls started so far
    clock,            \* the time of the last animation frame
    animating,        \* startAnimationLoop has run
    keyListener,      \* the keydown listener is installed
    frame,            \* what the last render call did
    lastOp,           \* the last operation
    lastLoad,         \* how the last finished loadModel call went
    failure,          \* the load whose failure set the error: [model, previous]
    pause,            \* the pause made with the Pause button: [at, length]
    probe             \* the object under test of the unit-level specifications

vars == <<isMounted, isInitialized, error, currentModel, currentAction, physicsPaused,
          isLoadingModel, demoRef, demo, heap, scene, dragStateManager, initDemoPc,
          initLoad, switch, nLoads, clock, animating, keyListener, frame, lastOp,
          lastLoad, failure, pause, probe>>

reactVars == <<isMounted, isInitialized, error, currentModel, currentAction,
               physicsPaused, isLoadingModel>>
demoVars == <<demo, heap, scene>>
taskVars == <<initDemoPc, initLoad, switch, nLoads>>
loopVars == <<clock, animating, keyListener, frame, pause>>
programVars == <<reactVars, demoRef, demoVars, dragStateManager, taskVars, loopVars,
                 lastOp, lastLoad, failure>>

NoProbe == [kind |-> "none"]

NoSwitch == [pc |-> "idle", model |-> None, id |-> 0, prev |-> None]
\* no load has failed
NoFailure == [model |-> None, previous |-> None]
\* at is the time of the last frame before the Pause button paused physics (-1
\* when physics has run since, or was never paused by the button); length is,
\* for the first frame rendered unpaused after such a pause, the time from at to
\* that frame, the longest the pause can have lasted (0 for any other frame)
NoPause == [at |-> -1, length |-> 0]
NoLoad == [caller |-> None, model |-> None, fault |-> "none", raised |-> "none",
           threw |-> FALSE]

Init ==
    /\ isMounted = FALSE
    /\ isInitialized = FALSE
    /\ error = None
    /\ currentModel = "humanoid"
    /\ currentAction = "idle"
    /\ physicsPaused = FALSE
    /\ isLoadingModel = FALSE
    /\ demoRef = FALSE
    /\ demo = NewMuJoCoDemo
    /\ heap = [i \in 1..MaxLoads |-> NoSim]
    /\ scene = << >>
    /\ dragStateManager = NewDragStateManager
    /\ initDemoPc = "idle"
    /\ initLoad = 0
    /\ switch = NoSwitch
    /\ nLoads = 0
    /\ clock = 0
    /\ animating = FALSE
    /\ keyListener = FALSE
    /\ frame = NoFrame
    /\ lastOp = "init"
    /\ lastLoad = NoLoad
    /\ failure = NoFailure
    /\ pause = NoPause
    /\ probe = NoProbe

\* the container div and the control panel are rendered
PanelRendered == isMounted /\ error = None
\* the selects and buttons of the control panel accept input
PanelEnabled == PanelRendered /\ ~isLoadingModel

\* the outcome of a loadModel call: the loader run, then the binary; at most one
\* thing goes wrong in a call
LoadOutcomes ==
    {o \in [io : LoaderRuns, binFail : BinaryFailures \cup {"none"}, geomOk : BOOLEAN] :
        FaultCount(o.io) + (IF o.binFail # "none" THEN 1 ELSE 0)
            + (IF o.geomOk THEN 0 ELSE 1) <= 1}

\* the fault of a loader run, by name ("none" when every fetch and write succeeds)
FaultOf(io) ==
    IF io.xml # "ok" THEN "xml " \o io.xml
    ELSE IF io.include # "ok" THEN "include " \o io.include
    ELSE IF io.asset # "ok" THEN "asset " \o io.asset
    ELSE IF io.write # "ok" THEN "write " \o io.write
    ELSE "none"

\* loadModel from its first await on; id is the number of the call.  raised is
\* the call of the binary that threw ("none" if none did or none was reached)
loadModelFinish(D, H, S, m, id, o) ==
    LET l == loadRobotModel(o.io) IN
    IF l.threw
    THEN [demo |-> D, heap |-> H, scene |-> S, threw |-> TRUE, raised |-> "none"]
    ELSE LET t == loadModelTail(D, H, S, m, m, id, o.binFail, o.geomOk) IN
         [demo |-> t.demo, heap |-> t.heap, scene |-> t.scene, threw |-> t.threw,
          raised |-> o.binFail]

(***************************************************************************)
(* The component: effects, initDemo, the handlers of the control panel     *)
(***************************************************************************)
\* useEffect(() => setIsMounted(true), [])
MountEffect ==
    /\ UNCHANGED probe
    /\ ~isMounted
    /\ isMounted' = TRUE
    /\ lastOp' = "other"
    /\ UNCHANGED <<isInitialized, error, currentModel, currentAction, physicsPaused,
                   isLoadingModel, demoRef, dragStateManager>>
    /\ UNCHANGED <<demoVars, taskVars, loopVars, lastLoad, failure>>

\* the second effect: initDemo(...).catch(setError), up to await loadMuJoCo()
InitEffect ==
    /\ UNCHANGED probe
    /\ isMounted /\ error = None /\ ~isInitialized
    /\ isInitialized' = TRUE
    /\ initDemoPc' = "wasm"
    /\ lastOp' = "other"
    /\ UNCHANGED <<isMounted, error, currentModel, currentAction, physicsPaused,
                   isLoadingModel, demoRef, dragStateManager>>
    /\ UNCHANGED <<demoVars, initLoad, switch, nLoads, loopVars, lastLoad, failure>>

\* loadMuJoCo() rejects: initDemo rethrows and the effect's catch sets the error
LoadMuJoCoFailed ==
    /\ UNCHANGED probe
    /\ initDemoPc = "wasm"
    /\ initDemoPc' = "failed"
    /\ error' = "init failed"
    /\ failure' = [model |-> None, previous |-> None]
    /\ lastOp' = "other"
    /\ UNCHANGED <<isMounted, isInitialized, currentModel, currentAction, physicsPaused,
                   isLoadingModel, demoRef, dragStateManager>>
    /\ UNCHANGED <<demoVars, initLoad, switch, nLoads, loopVars, lastLoad>>

\* loadMuJoCo() resolves: the demo is created, demoRef is set and
\* demo.loadModel(humanoid) runs up to its first await
LoadMuJoCoDone ==
    /\ UNCHANGED probe
    /\ initDemoPc = "wasm"
    /\ nLoads < MaxLoads
    /\ LET r == loadModelStart(NewMuJoCoDemo, heap, scene) IN
        /\ demo' = r.demo
        /\ heap' = r.heap
        /\ scene' = r.scene
    /\ demoRef' = TRUE
    /\ dragStateManager' = NewDragStateManager
    /\ nLoads' = nLoads + 1
    /\ initLoad' = nLoads + 1
    /\ initDemoPc' = "loading"
    /\ lastOp' = "other"
    /\ UNCHANGED <<reactVars, switch, loopVars, lastLoad, failure>>

\* the pause record after a frame rendered at timeMS on the demo D
pauseAfterFrame(D, timeMS) ==
    IF D.paused THEN [pause EXCEPT !.length = 0]
    ELSE [at |-> -1, length |-> IF pause.at # -1 THEN timeMS - pause.at ELSE 0]

\* the initial loadModel settles.  On success initDemo installs the keydown
\* listener and startAnimationLoop renders the first frame at once; on failure
\* initDemo rethrows and the effect's catch sets the error
InitLoadFinish(o, d, outcomes) ==
    /\ UNCHANGED probe
    /\ initDemoPc = "loading"
    /\ clock + d <= MaxTime
    /\ LET r == loadModelFinish(demo, heap, scene, "humanoid", initLoad, o) IN
        /\ lastLoad' = [caller |-> "init", model |-> "humanoid",
                        fault |-> FaultOf(o.io), raised |-> r.raised, threw |-> r.threw]
        /\ IF r.threw
           THEN /\ demo' = r.demo
                /\ heap' = r.heap
                /\ scene' = r.scene
                /\ initDemoPc' = "failed"
                /\ error' = "init failed"
                /\ failure' = [model |-> "humanoid", previous |-> None]
                /\ lastOp' = "other"
                /\ UNCHANGED <<dragStateManager, loopVars>>
           ELSE LET f == render(r.demo, r.heap, dragStateManager, clock + d, outcomes) IN
                /\ demo' = f.demo
                /\ heap' = f.heap
                /\ scene' = r.scene
                /\ dragStateManager' = f.drag
                /\ frame' = f.frame
                /\ pause' = pauseAfterFrame(r.demo, clock + d)
                /\ clock' = clock + d
                /\ keyListener' = TRUE
                /\ animating' = TRUE
                /\ initDemoPc' = "done"
                /\ error' = error
                /\ failure' = failure
                /\ lastOp' = "render"
    /\ UNCHANGED <<isMounted, isInitialized, currentModel, currentAction, physicsPaused,
                   isLoadingModel, demoRef, initLoad, switch, nLoads>>

\* the model select changes: handleModelChange(model), switchModelLocal up to
\* its first await (the 50 ms timer)
handleModelChange(model) ==
    /\ UNCHANGED probe
    /\ PanelEnabled
    /\ nLoads < MaxLoads
    /\ lastOp' = "other"
    /\ IF demoRef /\ model # currentModel
       THEN /\ demo' = [demo EXCEPT !.paused = TRUE]
            /\ physicsPaused' = TRUE
            /\ isLoadingModel' = TRUE
            /\ switch' = [pc |-> "delay50", model |-> model, id |-> 0, prev |-> None]
       ELSE UNCHANGED <<demo, physicsPaused, isLoadingModel, switch>>
    /\ UNCHANGED <<isMounted, isInitialized, error, currentModel, currentAction,
                   demoRef, heap, scene, dragStateManager, initDemoPc, initLoad,
                   nLoads, loopVars, lastLoad, failure>>

\* the 50 ms timer fires: demo.loadModel(path, modelKey) runs up to its first await
SwitchLoadStart ==
    /\ UNCHANGED probe
    /\ switch.pc = "delay50"
    /\ nLoads < MaxLoads
    /\ LET r == loadModelStart(demo, heap, scene) IN
        /\ demo' = r.demo
        /\ heap' = r.heap
        /\ scene' = r.scene
    /\ nLoads' = nLoads + 1
    /\ switch' = [switch EXCEPT !.pc = "loading", !.id = nLoads + 1,
                                !.prev = IF demo.simulation # 0 THEN demo.model ELSE None]
    /\ lastOp' = "other"
    /\ UNCHANGED <<reactVars, demoRef, dragStateManager, initDemoPc, initLoad,
                   loopVars, lastLoad, failure>>

SwitchLoadFinish_noSetError(o) ==
    /\ UNCHANGED probe
    /\ switch.pc = "loading"
    /\ LET r == loadModelFinish(demo, heap, scene, switch.model, switch.id, o) IN
        /\ demo' = r.demo
        /\ heap' = r.heap
        /\ scene' = r.scene
        /\ lastLoad' = [caller |-> "switch", model |-> switch.model,
                        fault |-> FaultOf(o.io), raised |-> r.raised, threw |-> r.threw]
        /\ IF r.threw
           THEN /\ isLoadingModel' = FALSE
                /\ error' = error
                /\ failure' = failure
                /\ switch' = NoSwitch
                /\ lastOp' = "other"
                /\ UNCHANGED currentModel
           ELSE /\ currentModel' = switch.model
                /\ switch' = [switch EXCEPT !.pc = "delay100"]
                /\ lastOp' = "other"
                /\ error' = error
                /\ UNCHANGED <<isLoadingModel, failure>>
    /\ UNCHANGED <<isMounted, isInitialized, currentAction, physicsPaused, demoRef,
                   dragStateManager, initDemoPc, initLoad, nLoads, loopVars>>

SwitchLoadFinish_clearsError(o) ==
    /\ UNCHANGED probe
    /\ switch.pc = "loading"
    /\ LET r == loadModelFinish(demo, heap, scene, switch.model, switch.id, o) IN
        /\ demo' = r.demo
        /\ heap' = r.heap
        /\ scene' = r.scene
        /\ lastLoad' = [caller |-> "switch", model |-> switch.model,
                        fault |-> FaultOf(o.io), raised |-> r.raised, threw |-> r.threw]
        /\ IF r.threw
           THEN /\ isLoadingModel' = FALSE
                /\ error' = "switch failed"
                /\ failure' = [model |-> switch.model, previous |-> switch.prev]
                /\ switch' = NoSwitch
                /\ lastOp' = "other"
                /\ UNCHANGED currentModel
           ELSE /\ currentModel' = switch.model
                /\ switch' = [switch EXCEPT !.pc = "delay100"]
                /\ lastOp' = "other"
                /\ error' = None
                /\ UNCHANGED <<isLoadingModel, failure>>
    /\ UNCHANGED <<isMounted, isInitialized, currentAction, physicsPaused, demoRef,
                   dragStateManager, initDemoPc, initLoad, nLoads, loopVars>>

\* the loadModel call of switchModelLocal settles.  On success setCurrentModel
\* and the 100 ms timer; on failure finally clears isLoadingModel and the catch
\* of handleModelChange sets the error
SwitchLoadFinish(o) ==
    /\ UNCHANGED probe
    /\ switch.pc = "loading"
    /\ LET r == loadModelFinish(demo, heap, scene, switch.model, switch.id, o) IN
        /\ demo' = r.demo
        /\ heap' = r.heap
        /\ scene' = r.scene
        /\ lastLoad' = [caller |-> "switch", model |-> switch.model,
                        fault |-> FaultOf(o.io), raised |-> r.raised, threw |-> r.threw]
        /\ IF r.threw
           THEN /\ isLoadingModel' = FALSE
                /\ error' = "switch failed"
                /\ failure' = [model |-> switch.model, previous |-> switch.prev]
                /\ switch' = NoSwitch
                /\ lastOp' = "other"
                /\ UNCHANGED currentModel
           ELSE /\ currentModel' = switch.model
                /\ switch' = [switch EXCEPT !.pc = "delay100"]
                /\ lastOp' = "other"
                /\ error' = error
                /\ UNCHANGED <<isLoadingModel, failure>>
    /\ UNCHANGED <<isMounted, isInitialized, currentAction, physicsPaused, demoRef,
                   dragStateManager, initDemoPc, initLoad, nLoads, loopVars>>

\* the 100 ms timer fires: physics resumes, finally clears isLoadingModel
SwitchResume ==
    /\ UNCHANGED probe
    /\ switch.pc = "delay100"
    /\ demo' = [demo EXCEPT !.paused = FALSE]
    /\ physicsPaused' = FALSE
    /\ isLoadingModel' = FALSE
    /\ switch' = NoSwitch
    /\ lastOp' = "other"
    /\ UNCHANGED <<isMounted, isInitialized, error, currentModel, currentAction,
                   demoRef, heap, scene, dragStateManager, initDemoPc, initLoad,
                   nLoads, loopVars, lastLoad, failure>>

handleActionChange_whileLoading(action) ==
    /\ UNCHANGED probe
    /\ PanelRendered
    /\ IF demoRef
       THEN /\ LET r == setAction(demo, heap, action) IN
                /\ demo' = r.demo
                /\ heap' = r.heap
            /\ currentAction' = action
            /\ lastOp' = "setAction"
       ELSE /\ lastOp' = "other"
            /\ UNCHANGED <<demo, heap, currentAction>>
    /\ UNCHANGED <<isMounted, isInitialized, error, currentModel, physicsPaused,
                   isLoadingModel, demoRef, scene, dragStateManager, taskVars,
                   loopVars, lastLoad, failure>>

\* the action select changes: handleActionChange(action)
handleActionChange(action) ==
    /\ UNCHANGED probe
    /\ PanelEnabled
    /\ IF demoRef
       THEN /\ LET r == setAction(demo, heap, action) IN
                /\ demo' = r.demo
                /\ heap' = r.heap
            /\ currentAction' = action
            /\ lastOp' = "setAction"
       ELSE /\ lastOp' = "other"
            /\ UNCHANGED <<demo, heap, currentAction>>
    /\ UNCHANGED <<isMounted, isInitialized, error, currentModel, physicsPaused,
                   isLoadingModel, demoRef, scene, dragStateManager, taskVars,
                   loopVars, lastLoad, failure>>

\* the Reset button: handleReset
handleReset ==
    /\ UNCHANGED probe
    /\ PanelEnabled
    /\ demoRef
    /\ heap' = resetSimulation(demo, heap)
    /\ lastOp' = "resetSimulation"
    /\ UNCHANGED <<reactVars, demoRef, demo, scene, dragStateManager, taskVars,
                   loopVars, lastLoad, failure>>

\* the R key: handleKeyDown of initDemo
handleKeyDown ==
    /\ UNCHANGED probe
    /\ keyListener
    /\ heap' = resetSimulation(demo, heap)
    /\ lastOp' = "resetSimulation"
    /\ UNCHANGED <<reactVars, demoRef, demo, scene, dragStateManager, taskVars,
                   loopVars, lastLoad, failure>>

handleTogglePhysics_whileLoading ==
    /\ UNCHANGED probe
    /\ PanelRendered
    /\ demoRef
    /\ demo' = [demo EXCEPT !.paused = ~demo.paused]
    /\ physicsPaused' = ~demo.paused
    /\ pause' = IF demo.paused THEN pause ELSE [at |-> clock, length |-> 0]
    /\ lastOp' = "other"
    /\ UNCHANGED <<isMounted, isInitialized, error, currentModel, currentAction,
                   isLoadingModel, demoRef, heap, scene, dragStateManager, taskVars,
                   clock, animating, keyListener, frame, lastLoad, failure>>

\* the Pause/Resume button: handleTogglePhysics
handleTogglePhysics ==
    /\ UNCHANGED probe
    /\ PanelEnabled
    /\ demoRef
    /\ demo' = [demo EXCEPT !.paused = ~demo.paused]
    /\ physicsPaused' = ~demo.paused
    /\ pause' = IF demo.paused THEN pause ELSE [at |-> clock, length |-> 0]
    /\ lastOp' = "other"
    /\ UNCHANGED <<isMounted, isInitialized, error, currentModel, currentAction,
                   isLoadingModel, demoRef, heap, scene, dragStateManager, taskVars,
                   clock, animating, keyListener, frame, lastLoad, failure>>

\* an animation frame: animate(timeMS) calls demo.render(timeMS)
animate(d, outcomes) ==
    /\ UNCHANGED probe
    /\ animating
    /\ clock + d <= MaxTime
    /\ LET f == render(demo, heap, dragStateManager, clock + d, outcomes) IN
        /\ demo' = f.demo
        /\ heap' = f.heap
        /\ dragStateManager' = f.drag
        /\ frame' = f.frame
    /\ pause' = pauseAfterFrame(demo, clock + d)
    /\ clock' = clock + d
    /\ lastOp' = "render"
    /\ UNCHANGED <<reactVars, demoRef, scene, taskVars, animating, keyListener, lastLoad, failure>>

(***************************************************************************)
(* Pointer events                                                          *)
(***************************************************************************)
\* the meshes of the body groups of one root of the scene
RootObjects(r) ==
    {[root |-> r.id, bodyID |-> b,
      world |-> IF r.id = demo.bodiesRoot /\ b \in DOMAIN demo.bodies
                THEN demo.bodies[b].position
                ELSE r.pos[b]] : b \in DOMAIN r.pos}

\* the objects of the scene that carry a bodyID
SceneObjects == UNION {RootObjects(scene[i]) : i \in DOMAIN scene}

\* an object without bodyID, such as the force arrow
PlainObject == [root |-> 0, bodyID |-> Undefined, world |-> <<0, 0, 0>>]

\* what raycaster.intersectObjects can return, nearest first: nothing, one
\* object, or an object that cannot be grabbed in front of another object
Intersections ==
    {<< >>}
    \cup {<<[object |-> o, point |-> h]>> :
            o \in SceneObjects \cup {PlainObject}, h \in HitPoints}
    \cup {<<[object |-> o1, point |-> <<0, 0, 0>>], [object |-> o2, point |-> h]>> :
            o1 \in {o \in SceneObjects \cup {PlainObject} : o.bodyID <= 0},
            o2 \in SceneObjects, h \in HitPoints}

\* pointerdown on the canvas
PointerDown(intersects) ==
    /\ UNCHANGED probe
    /\ demoRef /\ PanelRendered
    /\ dragStateManager' = onPointer(dragStateManager, "pointerdown", intersects, <<0, 0, 0>>)
    /\ lastOp' = "other"
    /\ UNCHANGED <<reactVars, demoRef, demoVars, taskVars, loopVars, lastLoad, failure>>

\* pointermove on the document
PointerMove(hit) ==
    /\ UNCHANGED probe
    /\ demoRef
    /\ dragStateManager' = onPointer(dragStateManager, "pointermove", << >>, hit)
    /\ lastOp' = "other"
    /\ UNCHANGED <<reactVars, demoRef, demoVars, taskVars, loopVars, lastLoad, failure>>

\* pointerup or pointerout on the document
PointerEnd(type) ==
    /\ UNCHANGED probe
    /\ demoRef
    /\ dragStateManager' = onPointer(dragStateManager, type, << >>, <<0, 0, 0>>)
    /\ lastOp' = "other"
    /\ UNCHANGED <<reactVars, demoRef, demoVars, taskVars, loopVars, lastLoad, failure>>

(***************************************************************************)
(* The program.  Three specifications share the actions and differ in the  *)
(* inputs the environment supplies:                                        *)
(*   Spec      every load succeeds; frames, poses, actions, reset, pause   *)
(*             and model switches vary; no pointer events                  *)
(*   SpecDrag  the initial load succeeds; frames, poses, actions and       *)
(*             pointer events vary                                         *)
(*   SpecLoad  every outcome of a load, switches between the humanoid and  *)
(*             the quadruped; one frame rate, no pointer events            *)
(***************************************************************************)
PoseSeqs == [1..MaxSubSteps -> Poses]

\* a load in which every fetch and write succeeds and the binary does not throw
GoodLoad == [io |-> [xml |-> "ok", include |-> "ok", asset |-> "ok", write |-> "ok"],
             binFail |-> "none", geomOk |-> TRUE]

\* the actions enumerated from the action select: run, squat and dance take the
\* same path through setAction
ActionInputs == {"idle", "walk", "run"}

Next ==
    \/ MountEffect
    \/ InitEffect
    \/ LoadMuJoCoDone
    \/ \E d \in FrameDeltas, ps \in PoseSeqs : InitLoadFinish(GoodLoad, d, ps)
    \/ \E m \in ROBOT_MODELS : handleModelChange(m)
    \/ SwitchLoadStart
    \/ SwitchLoadFinish(GoodLoad)
    \/ SwitchResume
    \/ \E a \in ActionInputs : handleActionChange(a)
    \/ handleReset
    \/ handleKeyDown
    \/ handleTogglePhysics
    \/ \E d \in FrameDeltas, ps \in PoseSeqs : animate(d, ps)

Spec == Init /\ [][Next]_vars

NextDrag ==
    \/ MountEffect
    \/ InitEffect
    \/ LoadMuJoCoDone
    \/ \E d \in FrameDeltas, ps \in PoseSeqs : InitLoadFinish(GoodLoad, d, ps)
    \/ \E a \in {"idle", "walk"} : handleActionChange(a)
    \/ \E d \in FrameDeltas, ps \in PoseSeqs : animate(d, ps)
    \/ \E x \in Intersections : PointerDown(x)
    \/ \E h \in MovePoints : PointerMove(h)
    \/ \E t \in {"pointerup", "pointerout"} : PointerEnd(t)

SpecDrag == Init /\ [][NextDrag]_vars

\* the frames of SpecLoad: every frame 20 ms after the last, the binary stepping
\* to pose 1
LoadPoses == [k \in 1..MaxSubSteps |-> 1]

NextLoad ==
    \/ MountEffect
    \/ InitEffect
    \/ LoadMuJoCoFailed
    \/ LoadMuJoCoDone
    \/ \E o \in LoadOutcomes : InitLoadFinish(o, 20, LoadPoses)
    \/ \E m \in {"humanoid", "unitree_go2"} : handleModelChange(m)
    \/ SwitchLoadStart
    \/ \E o \in LoadOutcomes : SwitchLoadFinish(o)
    \/ SwitchResume
    \/ \E a \in {"idle", "walk"} : handleActionChange(a)
    \/ handleKeyDown
    \/ handleTogglePhysics
    \/ animate(20, LoadPoses)

SpecLoad == Init /\ [][NextLoad]_vars

\* the frame times of SpecPause: a short first frame, so that the simulation
\* clock runs ahead of it, and a frame just over the budget later
PauseDeltas == {4, 36}

\* SpecPause: every load succeeds; frames, the Pause button and switches to the
\* quadruped vary
NextPause ==
    \/ MountEffect
    \/ InitEffect
    \/ LoadMuJoCoDone
    \/ \E d \in PauseDeltas : InitLoadFinish(GoodLoad, d, LoadPoses)
    \/ handleModelChange("unitree_go2")
    \/ SwitchLoadStart
    \/ SwitchLoadFinish(GoodLoad)
    \/ SwitchResume
    \/ handleTogglePhysics
    \/ \E d \in PauseDeltas : animate(d, LoadPoses)

SpecPause == Init /\ [][NextPause]_vars

(***************************************************************************)
(* Unit-level specifications: the conversions and the controller on their  *)
(* own, applied to inputs drawn from bounded sets.  The program does not   *)
(* run; its variables keep their initial values.                           *)
(***************************************************************************)
ProgramIdle ==
    /\ isMounted = FALSE /\ isInitialized = FALSE /\ error = None
    /\ currentModel = "humanoid" /\ currentAction = "idle"
    /\ physicsPaused = FALSE /\ isLoadingModel = FALSE
    /\ demoRef = FALSE /\ demo = NewMuJoCoDemo
    /\ heap = [i \in 1..MaxLoads |-> NoSim] /\ scene = << >>
    /\ dragStateManager = NewDragStateManager
    /\ initDemoPc = "idle" /\ initLoad = 0 /\ switch = NoSwitch /\ nLoads = 0
    /\ clock = 0 /\ animating = FALSE /\ keyListener = FALSE /\ frame = NoFrame
    /\ lastOp = "init" /\ lastLoad = NoLoad /\ failure = NoFailure
    /\ pause = NoPause

Coords == (-MaxCoord)..MaxCoord
Triples == {<<x, y, z>> : x \in Coords, y \in Coords, z \in Coords}

\* a position buffer of MaxTriples triples, and a render-space vector
InitConv ==
    /\ ProgramIdle
    /\ \E t \in Triples, i \in 0..(MaxTriples - 1), v \in Triples :
        probe = [kind |-> "conv", stage |-> "start",
                 buffer |-> PutTriple(ZeroArr(3 * MaxTriples), i, t),
                 index |-> i, original |-> v, target |-> v]

\* getPosition(buffer, index, target) of the stored triple ...
ConvGetPosition ==
    /\ probe.stage = "start"
    /\ probe' = [probe EXCEPT !.stage = "got",
                              !.target = getPosition(probe.buffer, probe.index, TRUE)]
    /\ UNCHANGED programVars

\* ... and toMujocoPos of the result
ConvToMujocoPos ==
    /\ probe.stage = "got"
    /\ probe' = [probe EXCEPT !.stage = "back", !.target = toMujocoPos(probe.target)]
    /\ UNCHANGED programVars

\* toMujocoPos of the render-space vector, stored at index ...
ConvStore ==
    /\ probe.stage = "start"
    /\ probe' = [probe EXCEPT !.stage = "stored",
                              !.buffer = PutTriple(probe.buffer, probe.index,
                                                   toMujocoPos(probe.target))]
    /\ UNCHANGED programVars

\* ... and getPosition of what was stored
ConvLoad ==
    /\ probe.stage = "stored"
    /\ probe' = [probe EXCEPT !.stage = "loaded",
                              !.target = getPosition(probe.buffer, probe.index, TRUE)]
    /\ UNCHANGED programVars

NextConv == ConvGetPosition \/ ConvToMujocoPos \/ ConvStore \/ ConvLoad

SpecConv == InitConv /\ [][NextConv]_vars

\* the longest walk the controller is driven through, in ms
MaxPhase == 24

\* a controller on a fresh simulation of one of the models
InitCtrl ==
    /\ ProgramIdle
    /\ \E m \in ROBOT_MODELS :
        probe = [kind |-> "ctrl", zmp |-> NewZMPController(m, 1, m),
                 sim |-> SimForward(NewSimulation(m)),
                 op |-> "new", action |-> "idle", deltaTime |-> 0,
                 before |-> [phase |-> 0, isActive |-> FALSE,
                             ctrl |-> ZeroArr(nu(m))],
                 writes |-> {}]

Before(p) == [phase |-> p.zmp.phase, isActive |-> p.zmp.isActive, ctrl |-> p.sim.ctrl]

CtrlStartAction(action) ==
    /\ probe' = [probe EXCEPT !.zmp = startAction(probe.zmp, action),
                              !.op = "startAction", !.action = action,
                              !.deltaTime = 0,
                              !.before = Before(probe), !.writes = {}]
    /\ UNCHANGED programVars

CtrlStopAction ==
    /\ probe' = [probe EXCEPT !.zmp = stopActionZmp(probe.zmp),
                              !.sim = stopActionSim(probe.sim),
                              !.op = "stopAction", !.action = "idle",
                              !.deltaTime = 0,
                              !.before = Before(probe), !.writes = {}]
    /\ UNCHANGED programVars

CtrlUpdate(deltaTime, action) ==
    /\ probe.zmp.phase + deltaTime <= MaxPhase
    /\ LET u == update(probe.zmp, probe.sim, deltaTime, action) IN
        probe' = [probe EXCEPT !.zmp = u.zmp, !.sim = u.sim,
                               !.op = "update", !.action = action,
                               !.deltaTime = deltaTime,
                               !.before = Before(probe), !.writes = u.writes]
    /\ UNCHANGED programVars

NextCtrl ==
    \/ \E a \in ROBOT_ACTIONS : CtrlStartAction(a)
    \/ CtrlStopAction
    \/ \E a \in ROBOT_ACTIONS : CtrlUpdate(ModelInfo(probe.zmp.model).timestepMS, a)

SpecCtrl == InitCtrl /\ [][NextCtrl]_vars

(***************************************************************************)
(* Properties                                                              *)
(***************************************************************************)
\* the simulation the demo holds
Sim == heap[demo.simulation]

\* C1: in a frame of render that runs physics, the steps are bounded by the
\* 35 ms budget: when timeMS - mujocoTime exceeded 35 at frame start, mujocoTime
\* is set to timeMS and no step runs; otherwise the loop makes at most
\* ceil(35 / timestep) steps, timestep in ms (n <= ceil(35 / t) iff (n - 1) * t < 35)
C1_StepsWithinBudget ==
    (lastOp = "render" /\ frame.ran) =>
        IF frame.gap > 35
        THEN Len(frame.subs) = 0 /\ demo.mujocoTime = frame.timeMS
        ELSE (Len(frame.subs) - 1) * frame.timestep < 35

\* a frame within the budget that needed several steps to catch up
C1_Witness ==
    lastOp = "render" /\ frame.ran /\ frame.gap <= 35 /\ Len(frame.subs) >= 3

\* the failures of a load that make loadModel reject
ThrowingFaults ==
    {"xml rejected", "xml notOk", "xml empty", "include rejected",
     "include writeFailed", "write failed"}
\* the failures of a load that the loader only logs
LoggedFaults ==
    {"include notOk", "asset rejected", "asset notOk", "asset writeFailed"}

\* C2 as stated: every failure of the last finished load (a failed fetch or
\* write of the model XML, an include or an asset, or an exception of the
\* binary) has put the component in the error state
C2_EveryFailureIsAnError ==
    (lastLoad.fault # "none" \/ lastLoad.raised # "none") => error # None

\* C2 amended: a failure that makes loadModel reject (model XML fetch rejected,
\* non-OK or empty, include fetch rejected, VFS write of an include or of the
\* model XML failed, the binary throwing) has put the component in the error
\* state; a non-OK include fetch or a failed asset is only logged and, unless the
\* binary throws, the load succeeds
C2_RejectingFailureIsAnError ==
    /\ (lastLoad.fault \in ThrowingFaults \/ lastLoad.raised # "none")
            => (lastLoad.threw /\ error # None)
    /\ (lastLoad.fault \in LoggedFaults /\ lastLoad.raised = "none")
            => ~lastLoad.threw
    /\ lastLoad.threw => error # None

\* a model switch failed on a VFS write and the error screen is up
C2_Witness ==
    /\ lastLoad.caller = "switch"
    /\ lastLoad.fault = "write failed"
    /\ error = "switch failed"

\* C3: once the error is set no step clears it; no step starts a loadModel call
\* of its own accord (the only calls still started are those of a model switch
\* that was already requested, for the model that was requested) and no step
\* accepts a new request; and no step makes the demo hold a simulation of the
\* model that was loaded before the failed load again
C3_ErrorAbsorbing ==
    [][error # None =>
        /\ error' # None
        /\ nLoads' > nLoads => (switch.pc = "delay50" /\ switch'.model = switch.model)
        /\ switch.pc = "idle" => switch'.pc = "idle"
        /\ initDemoPc' = initDemoPc \/ initDemoPc = "loading"
        /\ (failure.previous # None /\ demo'.simulation # demo.simulation)
                => (demo'.simulation = 0
                    \/ heap'[demo'.simulation].model # failure.previous)]_vars

\* a frame is rendered after a model switch away from a loaded model has failed
C3_Witness ==
    /\ error = "switch failed"
    /\ failure.previous = "humanoid"
    /\ lastOp = "render"
    /\ demo.simulation = 0

\* C4: after resetSimulation on a loaded simulation every entry of ctrl is 0
C4_ResetZeroesCtrl ==
    (lastOp = "resetSimulation" /\ demo.simulation # 0) =>
        \A k \in DOMAIN Sim.ctrl : Sim.ctrl[k] = 0

\* a reset while the gait is active, after a frame in which it wrote ctrl
C4_Witness ==
    /\ lastOp = "resetSimulation"
    /\ demo.simulation # 0
    /\ demo.actionController.isActive
    /\ \E k \in DOMAIN frame.subs : frame.subs[k].writes # {}

\* C5: when no load is in progress the model select shows the demo's model and
\* the action select the demo's action
C5_DropdownsReflectDemo ==
    (switch.pc = "idle" /\ initDemoPc # "loading" /\ demoRef) =>
        /\ currentModel = demo.currentModel
        /\ currentAction = demo.currentAction

\* C6: at most one loadModel call is in progress: the initial load and the load
\* of a model switch never overlap
C6_OneLoadAtATime ==
    ~(initDemoPc = "loading" /\ switch.pc = "loading")

\* the applyForce call C7 expects for a sub-step: the force
\* (currentWorld - worldHit) * body_mass[bodyID] * 250 and the point worldHit,
\* each (x, y, z) taken to (x, -z, y)
ExpectedCall(sub) ==
    LET d == <<sub.currentWorld[1] - sub.worldHit[1],
               sub.currentWorld[2] - sub.worldHit[2],
               sub.currentWorld[3] - sub.worldHit[3]>>
        g == ModelInfo(demo.model).body_mass[sub.dragged.bodyID + 1] * 250
    IN [force |-> [nan |-> FALSE, v |-> <<d[1] * g, -(d[3] * g), d[2] * g>>],
        point |-> <<sub.worldHit[1], -sub.worldHit[3], sub.worldHit[2]>>,
        body |-> sub.dragged.bodyID]

\* C7: in every sub-step of a frame, applyForce is called once, with the expected
\* force and point, when a body with bodyID > 0 is grabbed and the controller is
\* not active, and is not called otherwise
C7_DragForce ==
    lastOp = "render" =>
        \A k \in DOMAIN frame.subs :
            LET sub == frame.subs[k] IN
            IF sub.dragged # NoObject /\ sub.dragged.bodyID > 0 /\ ~sub.active
            THEN sub.calls = <<ExpectedCall(sub)>>
            ELSE sub.calls = << >>

\* a sub-step that applied a drag force whose y component is not zero
C7_Witness ==
    /\ lastOp = "render"
    /\ \E k \in DOMAIN frame.subs :
        /\ Len(frame.subs[k].calls) = 1
        /\ frame.subs[k].calls[1].force.v[2] # 0

\* C8: toMujocoPos of getPosition of the triple stored at an index is that
\* triple, and getPosition of a stored toMujocoPos of a vector is that vector
C8_ConversionsInverse ==
    /\ (probe.kind = "conv" /\ probe.stage = "back") =>
            probe.target = <<probe.buffer[probe.index * 3],
                             probe.buffer[probe.index * 3 + 1],
                             probe.buffer[probe.index * 3 + 2]>>
    /\ (probe.kind = "conv" /\ probe.stage = "loaded") =>
            probe.target = probe.original

\* a round trip of a triple whose three coordinates differ and are not zero
C8_Witness ==
    /\ probe.kind = "conv"
    /\ probe.stage = "back"
    /\ probe.target[2] # 0
    /\ probe.target[2] # probe.target[3]
    /\ probe.target[1] # probe.target[2]

\* C9: update on a controller that is not active, or with an action other than
\* walk, leaves phase and ctrl as they were; startAction with an action other
\* than walk leaves the controller's isActive as it was
C9_OnlyWalkActs ==
    /\ (probe.kind = "ctrl" /\ probe.op = "update"
            /\ ~(probe.before.isActive /\ probe.action = "walk")) =>
            /\ probe.zmp.phase = probe.before.phase
            /\ probe.sim.ctrl = probe.before.ctrl
            /\ probe.writes = {}
    /\ (probe.kind = "ctrl" /\ probe.op = "startAction" /\ probe.action # "walk") =>
            probe.zmp.isActive = probe.before.isActive

\* update with another action on a controller that is walking
C9_Witness ==
    /\ probe.kind = "ctrl"
    /\ probe.op = "update"
    /\ probe.before.isActive
    /\ probe.action = "run"
    /\ probe.before.phase > 0

\* C10: after a render call with a model loaded, every body below nbody that has
\* a group has the group's position (x, z, -y) of its xpos triple and the
\* group's quaternion (-x, -z, y, -w) of its (w, x, y, z) xquat quadruple
C10_BodiesSynced ==
    (lastOp = "render" /\ frame.loaded) =>
        \A b \in DOMAIN demo.bodies :
            b < ModelInfo(demo.model).nbody =>
                /\ demo.bodies[b].position =
                        <<Sim.xpos[3 * b], Sim.xpos[3 * b + 2], -Sim.xpos[3 * b + 1]>>
                /\ demo.bodies[b].quaternion =
                        <<-Sim.xquat[4 * b + 1], -Sim.xquat[4 * b + 3],
                          Sim.xquat[4 * b + 2], -Sim.xquat[4 * b]>>

\* a frame rendered while paused, the bodies away from their initial pose
C10_Witness ==
    /\ lastOp = "render"
    /\ frame.loaded
    /\ ~frame.ran
    /\ demo.paused
    /\ \E b \in DOMAIN demo.bodies : demo.bodies[b].position[1] # 0

\* C11: after a render call that runs physics (a model loaded, not paused,
\* timestep > 0) and started with mujocoTime <= timeMS, the simulation clock has
\* caught up with the frame time and is less than one timestep ahead of it
C11_ClockCaughtUp ==
    (lastOp = "render" /\ frame.ran /\ frame.timestep > 0 /\ frame.gap >= 0) =>
        /\ frame.timeMS <= demo.mujocoTime
        /\ demo.mujocoTime < frame.timeMS + frame.timestep

\* a frame whose steps took the clock past the frame time
C11_Witness ==
    /\ lastOp = "render"
    /\ frame.ran
    /\ frame.gap >= 0
    /\ Len(frame.subs) >= 2
    /\ demo.mujocoTime > frame.timeMS

\* C12 as stated: a render call made while physics is paused or no simulation is
\* loaded makes no sub-step (no step, no controller update, no applyForce) and
\* leaves mujocoTime as it was; and the first frame rendered unpaused after a
\* pause that lasted more than 35 ms makes no sub-step and has set mujocoTime to
\* the frame time
C12_PausedTimeNotReplayed ==
    /\ (lastOp = "render" /\ (demo.paused \/ demo.simulation = 0)) =>
            /\ frame.subs = << >>
            /\ demo.mujocoTime = frame.timeMS - frame.gap
    /\ (lastOp = "render" /\ ~demo.paused /\ demo.simulation # 0 /\ pause.length > 35) =>
            /\ frame.subs = << >>
            /\ demo.mujocoTime = frame.timeMS

\* C12 amended: the first part as stated; the first frame rendered unpaused
\* after a pause makes no sub-step and sets mujocoTime to the frame time when
\* the frame time is more than 35 ms past mujocoTime, and otherwise steps
\* through the gap
C12_PausedGapOverBudgetNotReplayed ==
    /\ (lastOp = "render" /\ (demo.paused \/ demo.simulation = 0)) =>
            /\ frame.subs = << >>
            /\ demo.mujocoTime = frame.timeMS - frame.gap
    /\ (lastOp = "render" /\ ~demo.paused /\ demo.simulation # 0 /\ pause.length > 0) =>
            IF frame.gap > 35
            THEN frame.subs = << >> /\ demo.mujocoTime = frame.timeMS
            ELSE frame.gap > 0 => frame.subs # << >>

\* the first frame after a pause of more than 35 ms, its time more than 35 ms
\* past the simulation clock
C12_Witness ==
    /\ lastOp = "render"
    /\ ~demo.paused
    /\ demo.simulation # 0
    /\ pause.length > 35
    /\ frame.gap > 35
    /\ frame.subs = << >>

\* the qfrc_applied that one applyForce call leaves on cleared data
ForceOfCall(c) ==
    [k \in DOMAIN Sim.qfrc_applied |->
        IF c.force.nan \/ c.body >= ModelInfo(demo.model).nbody
        THEN 0
        ELSE c.force.v[1] + c.force.v[2] + c.force.v[3]]

\* C13: in every sub-step of a frame, the qfrc_applied that simulation.step()
\* finds is all zeros when the sub-step applied no drag force, and otherwise is
\* what the one applyForce call of that sub-step leaves on zeroed data: nothing
\* of an earlier sub-step is left in it
C13_ForcesDoNotAccumulate ==
    lastOp = "render" =>
        \A k \in DOMAIN frame.subs :
            IF frame.subs[k].calls = << >>
            THEN \A i \in DOMAIN frame.subs[k].qfrc : frame.subs[k].qfrc[i] = 0
            ELSE /\ Len(frame.subs[k].calls) = 1
                 /\ frame.subs[k].qfrc = ForceOfCall(frame.subs[k].calls[1])

\* a frame whose first two sub-steps each stepped with a drag force applied
C13_Witness ==
    /\ lastOp = "render"
    /\ Len(frame.subs) >= 2
    /\ \A k \in 1..2 :
        /\ frame.subs[k].calls # << >>
        /\ \E i \in DOMAIN frame.subs[k].qfrc : frame.subs[k].qfrc[i] # 0

\* C14: once the demo exists, after any pointer events, the DragStateManager is
\* active exactly when it holds a physicsObject, exactly when the orbit
\* controls are disabled, and exactly when the force arrow is visible
C14_DragStateConsistent ==
    demoRef =>
        /\ dragStateManager.active <=> (dragStateManager.physicsObject # NoObject)
        /\ dragStateManager.active <=> ~dragStateManager.controlsEnabled
        /\ dragStateManager.active <=> dragStateManager.arrowVisible

\* C15: while a model switch is in progress (from the start of switchModelLocal
\* until its 100 ms timer has fired) params.paused is true and a render call
\* makes no physics step; the step that ends a successful switch leaves
\* params.paused false, whatever it was before the switch; the step that ends a
\* failed switch leaves it true, and it stays true while the error is shown
C15_PausedDuringSwitch ==
    /\ [](switch.pc # "idle" =>
            (demo.paused /\ (lastOp = "render" => frame.subs = << >>)))
    /\ [][(switch.pc = "delay100" /\ switch'.pc = "idle") => ~demo'.paused]_vars
    /\ [][(switch.pc = "loading" /\ switch'.pc = "idle") => demo'.paused]_vars
    /\ [](error = "switch failed" => demo.paused)

\* a frame rendered with the new model loaded, before the 100 ms timer of a
\* switch that was started with physics already paused by the button
C15_Witness ==
    /\ switch.pc = "delay100"
    /\ lastOp = "render"
    /\ frame.loaded
    /\ frame.subs = << >>
    /\ demo.paused
    /\ pause.at # -1

\* C16: in every state, and so in every state render or resetSimulation sees,
\* demo.simulation is null or refers to a simulation that exists and has not
\* been freed, and when it is not null demo.model is not null either
C16_SimulationNeverFreed ==
    demo.simulation # 0 =>
        /\ heap[demo.simulation] # NoSim
        /\ ~heap[demo.simulation].freed
        /\ demo.model # None

\* a frame rendered while the load of a model switch is in flight, the
\* simulation of the previous model freed and the demo holding none
C16_Witness ==
    /\ lastOp = "render"
    /\ switch.pc = "loading"
    /\ demo.simulation = 0
    /\ demo.model = None
    /\ \E i \in DOMAIN heap : heap[i] # NoSim /\ heap[i].freed

\* the controller's simulation is the demo's simulation, and it has not been freed
ControllerSimLive ==
    /\ demo.actionController.sim = demo.simulation
    /\ demo.simulation # 0
    /\ heap[demo.simulation] # NoSim
    /\ ~heap[demo.simulation].freed

\* C17: after a render call that made sub-steps with a controller (each calls
\* update), and after a setAction('idle') with a controller (it calls
\* stopAction), the simulation the controller holds is the demo's current
\* simulation and has not been freed; neither call changes which simulation the
\* demo and the controller hold, so this is the simulation the call touched
C17_ControllerSimNotFreed ==
    /\ (lastOp = "render" /\ frame.subs # << >> /\ demo.actionController # NoController)
            => ControllerSimLive
    /\ (lastOp = "setAction" /\ demo.currentAction = "idle"
            /\ demo.actionController # NoController)
            => ControllerSimLive

\* stopAction runs on the controller of a model that was switched to, the
\* simulation of the previous model freed
C17_Witness ==
    /\ lastOp = "setAction"
    /\ demo.currentAction = "idle"
    /\ demo.actionController # NoController
    /\ demo.actionController.modelName = "unitree_go2"
    /\ \E i \in DOMAIN heap : heap[i] # NoSim /\ heap[i].freed

\* C18: the gait controller is active exactly when demo.currentAction is 'walk'
\* (a demo without a controller has no active gait)
C18_ActiveIffWalk ==
    demoRef =>
        ((demo.actionController # NoController /\ demo.actionController.isActive)
            <=> demo.currentAction = "walk")

\* C19: the camera controller is following exactly when the gait controller is
\* active; and after setAction('idle') on a demo with a controller the camera
\* position and the orbit target are those the scene was created with
C19_CameraFollowsGait ==
    demoRef =>
        /\ demo.cameraController.isFollowing
                <=> (demo.actionController # NoController /\ demo.actionController.isActive)
        /\ (lastOp = "setAction" /\ demo.currentAction = "idle"
                /\ demo.actionController # NoController) =>
                /\ demo.camera = NewMuJoCoDemo.camera
                /\ demo.controlsTarget = NewMuJoCoDemo.controlsTarget

\* the actuator names the gait of the probed controller gives targets for
TargetNames ==
    LET targets == generateSimpleGait(probe.zmp, probe.zmp.phase) IN
    {targets[k][1] : k \in 1..Len(targets)}

\* a motor actuator at index i whose transmission id is no index of qpos
MotorWithoutJoint(i) ==
    /\ ModelInfo(probe.zmp.model).actuators[i + 1] \in probe.zmp.motorActuators
    /\ \/ TrnId(probe.zmp.model, i) < 0
       \/ TrnId(probe.zmp.model, i) >= Len0(probe.sim.qpos)

\* C20: an update that runs writes ctrl only at indices 0 <= i < ctrl.length,
\* and exactly at those whose actuator of the model has a name the gait gives a
\* target for, motor actuators whose trnId is negative or not below qpos.length
\* excepted; every other entry of ctrl, those of such motors among them, is as
\* it was, and a target whose name the model does not have writes nothing
C20_WritesOnlyNamedActuators ==
    (probe.kind = "ctrl" /\ probe.op = "update"
        /\ probe.before.isActive /\ probe.action = "walk") =>
        /\ probe.writes \subseteq 0..(Len0(probe.sim.ctrl) - 1)
        /\ \A i \in 0..(Len0(probe.sim.ctrl) - 1) :
            /\ i \in probe.writes <=>
                    /\ ModelInfo(probe.zmp.model).actuators[i + 1] # ""
                    /\ ModelInfo(probe.zmp.model).actuators[i + 1] \in TargetNames
                    /\ ~MotorWithoutJoint(i)
            /\ i \notin probe.writes => probe.sim.ctrl[i] = probe.before.ctrl[i]
        /\ DOMAIN probe.sim.ctrl = DOMAIN probe.before.ctrl

\* an update of the walking Go2, whose targets name actuators the model lacks
\* and motors without a joint, has written a torque for FR_hip only among the hips
C20_Witness ==
    /\ probe.kind = "ctrl"
    /\ probe.op = "update"
    /\ probe.zmp.model = "unitree_go2"
    /\ probe.before.isActive
    /\ probe.action = "walk"
    /\ "RR_hip" \in TargetNames
    /\ MotorWithoutJoint(1)
    /\ MotorWithoutJoint(2)
    /\ probe.writes = {0, 3}
    /\ probe.sim.ctrl[0] # 0
    /\ probe.sim.ctrl[0] # probe.before.ctrl[0]

====
